---- MODULE Spec2Model ----
(***************************************************************************)
(* Model of clients/python-client/client.py: a TCP client that connects    *)
(* with retry (connect_to_server), prints what it reads                    *)
(* (listen_for_messages) and reconnects forever (main).                    *)
(*                                                                         *)
(* The program is one sequential flow of control.  pc names the source     *)
(* line about to run: "m44".."m47" are lines of main, "c31".."c39" lines   *)
(* of connect_to_server, "r18".."r24" lines of listen_for_messages         *)
(* ("r18d" is the .decode() half of line 18), and "exit" is the process    *)
(* ended by an exception no handler caught.                                *)
(***************************************************************************)
EXTENDS Integers, Sequences, FiniteSets, TLC

----------------------------------------------------------------------------
(* Bounds of the model *)

\* failed connection attempts the server side inflicts on one call of
\* connect_to_server before it accepts
MaxFails == 2
\* longest chunk one recv returns (at most RecvSize in the program)
MaxLen == 2
\* number of most recent events kept in trace
Window == 4

(* Program constants *)

RecvSize == 1024
SockTimeout == 5
RetryDelay == 5
DefaultHost == "localhost"
DefaultPort == 8080

----------------------------------------------------------------------------
(* Data *)

\* The bytes a server is let to send: "\n", "a", and the two bytes of the
\* UTF-8 encoding of U+00E9, each of which alone does not decode.
Bytes == {10, 97, 195, 169}

RECURSIVE SeqsUpTo(_, _)
SeqsUpTo(S, n) ==
    IF n = 0 THEN {<<>>}
    ELSE LET shorter == SeqsUpTo(S, n - 1)
         IN  shorter \cup {Append(s, b) : s \in {t \in shorter : Len(t) = n - 1}, b \in S}

\* what sock.recv(1024) can return: zero bytes (peer closed) or a chunk
Chunks == SeqsUpTo(Bytes, IF MaxLen < RecvSize THEN MaxLen ELSE RecvSize)

\* bytes.decode(): UTF-8, strict.  One-byte and two-byte forms; every other
\* lead byte, a stray continuation byte and a truncated sequence are errors.
IsCont(b) == b >= 128 /\ b <= 191
IsLead2(b) == b >= 194 /\ b <= 223

RECURSIVE CanDecode(_)
CanDecode(raw) ==
    IF raw = <<>> THEN TRUE
    ELSE IF Head(raw) < 128 THEN CanDecode(Tail(raw))
    ELSE IF IsLead2(Head(raw)) /\ Len(raw) >= 2 /\ IsCont(raw[2])
         THEN CanDecode(Tail(Tail(raw)))
    ELSE FALSE

RECURSIVE Decode(_)
Decode(raw) ==
    IF raw = <<>> THEN <<>>
    ELSE IF Head(raw) < 128 THEN <<Head(raw)>> \o Decode(Tail(raw))
    ELSE <<(Head(raw) - 192) * 64 + (raw[2] - 128)>> \o Decode(Tail(Tail(raw)))

\* str.strip(): leading and trailing whitespace removed
IsSpace(c) == c \in {9, 10, 11, 12, 13, 28, 29, 30, 31, 32, 133, 160}

RECURSIVE LStrip(_)
LStrip(s) == IF s # <<>> /\ IsSpace(Head(s)) THEN LStrip(Tail(s)) ELSE s

RECURSIVE RStrip(_)
RStrip(s) ==
    IF s # <<>> /\ IsSpace(s[Len(s)]) THEN RStrip(SubSeq(s, 1, Len(s) - 1)) ELSE s

Strip(s) == RStrip(LStrip(s))

\* line 19 without its test: no str counts as empty
Truthy_NeverEmpty(s) == TRUE

\* line 19 testing the stripped text, "not data.strip()"
Truthy_Stripped(s) == Len(Strip(s)) > 0

\* truth value of a str (line 19 tests "not data")
Truthy(s) == Len(s) > 0

\* Exceptions.  socket.error is OSError; socket.timeout and socket.gaierror
\* are subclasses of it, UnicodeDecodeError is a ValueError.
\* connect: refused, timed out, name not resolved, network unreachable (a
\* plain OSError).  socket.socket() itself failing is left out.
ConnectErrors == {"ConnectionRefusedError", "TimeoutError", "gaierror", "OSError"}
RecvErrors == {"ConnectionResetError", "TimeoutError"}
OSErrors == ConnectErrors \cup RecvErrors

\* "except socket.error as e" of lines 23 and 37
IsSocketError(e) == e \in OSErrors

\* The environment after load_dotenv(): each variable is <<>> when unset
\* and <<value>> when set, a value being a string; the port is written as
\* its sequence of characters.
Environs ==
    [SERVER_HOST : {<<>>, <<"surge.example">>},
     SERVER_PORT : {<<>>, << <<"9", "0", "0", "0">> >>}]

\* int(str) for a string of decimal digits
DigitValue(c) ==
    CASE c = "0" -> 0 [] c = "1" -> 1 [] c = "2" -> 2 [] c = "3" -> 3 [] c = "4" -> 4
      [] c = "5" -> 5 [] c = "6" -> 6 [] c = "7" -> 7 [] c = "8" -> 8 [] c = "9" -> 9

RECURSIVE ParseInt(_)
ParseInt(str) ==
    IF Len(str) = 1 THEN DigitValue(str[1])
    ELSE ParseInt(SubSeq(str, 1, Len(str) - 1)) * 10 + DigitValue(str[Len(str)])

\* line 11 with the loopback address as the default
ServerHost_Loopback(env) ==
    IF env.SERVER_HOST = <<>> THEN "127.0.0.1" ELSE env.SERVER_HOST[1]

\* line 11: os.getenv("SERVER_HOST", "localhost")
ServerHost(env) ==
    IF env.SERVER_HOST = <<>> THEN DefaultHost ELSE env.SERVER_HOST[1]

\* line 12: int(os.getenv("SERVER_PORT", 8080))
ServerPort(env) ==
    IF env.SERVER_PORT = <<>> THEN DefaultPort ELSE ParseInt(env.SERVER_PORT[1])

----------------------------------------------------------------------------
(* State *)

VARIABLES
    environ,      \* os.environ
    SERVER_HOST,  \* the module's global of line 11
    SERVER_PORT,  \* the module's global of line 12
    pc,      \* the line about to run
    msock,   \* main's local sock: an object id, 0 while unbound
    csock,   \* connect_to_server's local sock: an object id, 0 while unbound
    socks,   \* the socket objects, by id
    fails,   \* failed attempts of the current call of connect_to_server
    notes,   \* notices the current call of connect_to_server has printed
    raw,     \* the bytes the last recv returned
    data,    \* listen_for_messages' local data
    exc,     \* the exception in flight or in "e", "" when none
    trace    \* the last Window events: lines printed and socket calls made

\* what no line of the three functions assigns
config == <<environ, SERVER_HOST, SERVER_PORT>>

vars == <<config, pc, msock, csock, socks, fails, notes, raw, data, exc, trace>>

\* main's sock, connect_to_server's sock and the object line 32 is creating
ObjIds == 1 .. 3

\* the address of a socket connect was never called on
NoPeer == [host |-> "", port |-> 0]

\* an id with no object
NoSock == [st |-> "free", timeout |-> 0, closes |-> 0, err |-> FALSE, ended |-> "no",
           peer |-> NoPeer]

\* socket.socket(AF_INET, SOCK_STREAM): blocking, not connected
NewSock == [st |-> "created", timeout |-> 0, closes |-> 0, err |-> FALSE, ended |-> "no",
            peer |-> NoPeer]

\* An object no name refers to any more is deallocated.
Collect(tbl, refs) == [i \in ObjIds |-> IF i \in refs THEN tbl[i] ELSE NoSock]

Event(ev, e, arg) == [ev |-> ev, err |-> e, arg |-> arg]

\* the last Window events of t
Keep(t) == IF Len(t) > Window THEN SubSeq(t, Len(t) - Window + 1, Len(t)) ELSE t

Emit(ev, e, arg) ==
    LET t == Append(trace, Event(ev, e, arg))
    IN  IF Len(t) > Window THEN Tail(t) ELSE t

ConnectPcs == {"c31", "c32", "c33", "c34", "c35", "c36", "c38", "c39"}
ReceivePcs == {"r18", "r18d", "r19", "r20", "r22", "r24"}
MainPcs == {"m44", "m45", "m46", "m47"}

\* the state when line 50 calls main: lines 8-12 have run
Init ==
    /\ environ \in Environs
    /\ SERVER_HOST = ServerHost(environ)
    /\ SERVER_PORT = ServerPort(environ)
    /\ pc = "m44"
    /\ msock = 0
    /\ csock = 0
    /\ socks = [i \in ObjIds |-> NoSock]
    /\ fails = 0
    /\ notes = [att |-> 0, fail |-> 0, ok |-> 0]
    /\ raw = <<>>
    /\ data = <<>>
    /\ exc = ""
    /\ trace = <<>>

----------------------------------------------------------------------------
(* main *)

\* line 44, the call: sock = connect_to_server()
MainCallConnect ==
    /\ pc = "m44"
    /\ pc' = "c31"
    /\ fails' = 0
    /\ notes' = [att |-> 0, fail |-> 0, ok |-> 0]
    /\ UNCHANGED <<config, msock, csock, socks, raw, data, exc, trace>>

\* line 45 left out: main goes from the connect straight to the close
MainCallListen_Skipped ==
    /\ pc = "m45"
    /\ pc' = "m46"
    /\ UNCHANGED <<config, msock, csock, socks, fails, notes, raw, data, exc, trace>>

\* line 45, the call: listen_for_messages(sock)
MainCallListen ==
    /\ pc = "m45"
    /\ pc' = "r18"
    /\ UNCHANGED <<config, msock, csock, socks, fails, notes, raw, data, exc, trace>>

\* line 46 as "sock.close", the method named but not called
Close_NotCalled ==
    /\ pc = "m46"
    /\ pc' = "m47"
    /\ UNCHANGED <<config, msock, csock, socks, fails, notes, raw, data, exc, trace>>

\* line 46: sock.close()
Close ==
    /\ pc = "m46"
    /\ socks' = [socks EXCEPT ![msock].st = "closed", ![msock].closes = @ + 1]
    /\ trace' = Emit("close", "", <<>>)
    /\ pc' = "m47"
    /\ UNCHANGED <<config, msock, csock, fails, notes, raw, data, exc>>

\* line 47 followed by a time.sleep(5) before the loop goes round
ReconnectNotice_Wait ==
    /\ pc = "m47"
    /\ trace' = Keep(trace \o <<Event("reconnecting", "", <<>>), Event("sleep", "", <<RetryDelay>>)>>)
    /\ pc' = "m44"
    /\ UNCHANGED <<config, msock, csock, socks, fails, notes, raw, data, exc>>

\* line 47: print("Connection lost. Reconnecting..."), and back to line 44
ReconnectNotice ==
    /\ pc = "m47"
    /\ trace' = Emit("reconnecting", "", <<>>)
    /\ pc' = "m44"
    /\ UNCHANGED <<config, msock, csock, socks, fails, notes, raw, data, exc>>

----------------------------------------------------------------------------
(* connect_to_server *)

\* line 31 moved above the loop: printed for the first attempt only
AttemptNotice_Once ==
    /\ pc = "c31"
    /\ trace' = IF fails = 0 THEN Emit("attempting", "", <<>>) ELSE trace
    /\ notes' = IF fails = 0 THEN [notes EXCEPT !.att = @ + 1] ELSE notes
    /\ pc' = "c32"
    /\ UNCHANGED <<config, msock, csock, socks, fails, raw, data, exc>>

\* line 31: print("Attempting to connect to ...")
AttemptNotice ==
    /\ pc = "c31"
    /\ trace' = Emit("attempting", "", <<>>)
    /\ notes' = [notes EXCEPT !.att = @ + 1]
    /\ pc' = "c32"
    /\ UNCHANGED <<config, msock, csock, socks, fails, raw, data, exc>>

\* the least id no name refers to
NewId == CHOOSE i \in ObjIds \ {msock, csock} : \A j \in ObjIds \ {msock, csock} : i <= j

\* line 32: sock = socket.socket(AF_INET, SOCK_STREAM).  The socket of the
\* attempt before, if any, loses its only name.
CreateSocket ==
    /\ pc = "c32"
    /\ LET id == NewId
       IN  /\ socks' = Collect([socks EXCEPT ![id] = NewSock], {msock, id})
           /\ csock' = id
    /\ trace' = Emit("socket", "", <<>>)
    /\ pc' = "c33"
    /\ UNCHANGED <<config, msock, fails, notes, raw, data, exc>>

\* line 33 left out: the socket stays blocking
SetTimeout_Missing ==
    /\ pc = "c33"
    /\ pc' = "c34"
    /\ UNCHANGED <<config, msock, csock, socks, fails, notes, raw, data, exc, trace>>

\* line 33: sock.settimeout(5.0)
SetTimeout ==
    /\ pc = "c33"
    /\ socks' = [socks EXCEPT ![csock].timeout = SockTimeout]
    /\ trace' = Emit("settimeout", "", <<>>)
    /\ pc' = "c34"
    /\ UNCHANGED <<config, msock, csock, fails, notes, raw, data, exc>>

\* a handler that retries once and re-raises the second failure
ConnectHandler_MaxRetry(e) == IF IsSocketError(e) /\ fails < 1 THEN "c38" ELSE "exit"

\* where an exception raised inside the try of lines 30-36 goes
ConnectHandler(e) == IF IsSocketError(e) THEN "c38" ELSE "exit"

\* line 34: sock.connect((SERVER_HOST, SERVER_PORT)) succeeds
ConnectOk ==
    /\ pc = "c34"
    /\ socks' = [socks EXCEPT ![csock].st = "connected",
                              ![csock].peer = [host |-> SERVER_HOST, port |-> SERVER_PORT]]
    /\ trace' = Emit("connect", "", <<>>)
    /\ pc' = "c35"
    /\ UNCHANGED <<config, msock, csock, fails, notes, raw, data, exc>>

\* line 34: sock.connect(...) raises
ConnectFail ==
    /\ pc = "c34"
    /\ fails < MaxFails
    /\ \E e \in ConnectErrors :
          /\ exc' = e
          /\ trace' = Emit("connect", e, <<>>)
          /\ pc' = ConnectHandler(e)
    /\ socks' = [socks EXCEPT ![csock].peer = [host |-> SERVER_HOST, port |-> SERVER_PORT]]
    /\ fails' = fails + 1
    /\ UNCHANGED <<config, msock, csock, notes, raw, data>>

\* line 35 followed by a greeting, sock.sendall(b"hello")
ConnectedNotice_Greets ==
    /\ pc = "c35"
    /\ trace' = Keep(trace \o <<Event("connected", "", <<>>), Event("send", "", <<>>)>>)
    /\ notes' = [notes EXCEPT !.ok = @ + 1]
    /\ pc' = "c36"
    /\ UNCHANGED <<config, msock, csock, socks, fails, raw, data, exc>>

\* line 35: print("Connected to the server.")
ConnectedNotice ==
    /\ pc = "c35"
    /\ trace' = Emit("connected", "", <<>>)
    /\ notes' = [notes EXCEPT !.ok = @ + 1]
    /\ pc' = "c36"
    /\ UNCHANGED <<config, msock, csock, socks, fails, raw, data, exc>>

\* line 36: return sock, bound to main's sock by line 44.  The socket main
\* held before, if any, loses its only name.
ReturnSock ==
    /\ pc = "c36"
    /\ msock' = csock
    /\ csock' = 0
    /\ socks' = Collect(socks, {csock})
    /\ pc' = "m45"
    /\ UNCHANGED <<config, fails, notes, raw, data, exc, trace>>

\* line 38 without its print: the handler only sleeps
FailedNotice_Silent ==
    /\ pc = "c38"
    /\ pc' = "c39"
    /\ UNCHANGED <<config, msock, csock, socks, fails, notes, raw, data, exc, trace>>

\* line 38: print("Connection failed: {e}. Retrying in 5 seconds...")
FailedNotice ==
    /\ pc = "c38"
    /\ trace' = Emit("failed", exc, <<>>)
    /\ notes' = [notes EXCEPT !.fail = @ + 1]
    /\ pc' = "c39"
    /\ UNCHANGED <<config, msock, csock, socks, fails, raw, data, exc>>

\* line 39: time.sleep(5), the end of the handler (e is unbound) and back
\* to line 31
Sleep ==
    /\ pc = "c39"
    /\ trace' = Emit("sleep", "", <<RetryDelay>>)
    /\ exc' = ""
    /\ pc' = "c31"
    /\ UNCHANGED <<config, msock, csock, socks, fails, notes, raw, data>>

----------------------------------------------------------------------------
(* listen_for_messages *)

\* where an exception raised inside the try of lines 17-22 goes
ListenHandler(e) == IF IsSocketError(e) THEN "r24" ELSE "exit"

\* the errors a recv on socket s can raise: a transport error on a
\* connected socket, the timeout only when one is set; OSError on a socket
\* that is not connected (any more)
RecvRaises(s) ==
    IF s.st = "connected"
    THEN {e \in RecvErrors : e = "TimeoutError" => s.timeout > 0}
    ELSE {"OSError"}

\* line 18, first half: sock.recv(1024) returns bytes
RecvData ==
    /\ pc = "r18"
    /\ socks[msock].st = "connected"
    /\ \E chunk \in Chunks : raw' = chunk
    /\ trace' = Emit("recv", "", <<>>)
    /\ pc' = "r18d"
    /\ UNCHANGED <<config, msock, csock, socks, fails, notes, data, exc>>

\* line 18, first half: sock.recv(1024) raises
RecvError ==
    /\ pc = "r18"
    /\ \E e \in RecvRaises(socks[msock]) :
          /\ exc' = e
          /\ trace' = Emit("recv", e, <<>>)
          /\ pc' = ListenHandler(e)
          /\ socks' = [socks EXCEPT ![msock].err = TRUE,
                          ![msock].ended = IF ListenHandler(e) = "exit" THEN "raised" ELSE @]
    /\ UNCHANGED <<config, msock, csock, fails, notes, raw, data>>

\* line 18, second half: data = <bytes>.decode()
DecodeChunk ==
    /\ pc = "r18d"
    /\ IF CanDecode(raw)
       THEN /\ data' = Decode(raw)
            /\ pc' = "r19"
            /\ UNCHANGED <<exc, socks>>
       ELSE /\ exc' = "UnicodeDecodeError"
            /\ pc' = ListenHandler("UnicodeDecodeError")
            /\ socks' = [socks EXCEPT ![msock].ended =
                            IF ListenHandler("UnicodeDecodeError") = "exit" THEN "raised" ELSE @]
            /\ UNCHANGED data
    /\ UNCHANGED <<config, msock, csock, fails, notes, raw, trace>>

\* line 19: if not data
TestData ==
    /\ pc = "r19"
    /\ pc' = IF Truthy(data) THEN "r22" ELSE "r20"
    /\ UNCHANGED <<config, msock, csock, socks, fails, notes, raw, data, exc, trace>>

\* lines 20-21: print("Server closed the connection.") and return
ClosedNotice ==
    /\ pc = "r20"
    /\ trace' = Emit("closed", "", <<>>)
    /\ socks' = [socks EXCEPT ![msock].ended = "clean"]
    /\ pc' = "m46"
    /\ UNCHANGED <<config, msock, csock, fails, notes, raw, data, exc>>

\* line 22 printing only what is left after the strip: "if text: print(...)"
ReceivedNotice_SkipBlank ==
    /\ pc = "r22"
    /\ trace' = IF Strip(data) = <<>> THEN trace ELSE Emit("received", "", Strip(data))
    /\ pc' = "r18"
    /\ UNCHANGED <<config, msock, csock, socks, fails, notes, raw, data, exc>>

\* line 22: print(f"Received from server: {data.strip()}"), and back to
\* line 18
ReceivedNotice ==
    /\ pc = "r22"
    /\ trace' = Emit("received", "", Strip(data))
    /\ pc' = "r18"
    /\ UNCHANGED <<config, msock, csock, socks, fails, notes, raw, data, exc>>

\* line 25 as "continue": the handler prints and reads again
ErrorNotice_Retry ==
    /\ pc = "r24"
    /\ trace' = Emit("error", exc, <<>>)
    /\ exc' = ""
    /\ pc' = "r18"
    /\ UNCHANGED <<config, msock, csock, socks, fails, notes, raw, data>>

\* lines 24-25: print(f"Connection error: {e}") and return
ErrorNotice ==
    /\ pc = "r24"
    /\ trace' = Emit("error", exc, <<>>)
    /\ socks' = [socks EXCEPT ![msock].ended = "error"]
    /\ exc' = ""
    /\ pc' = "m46"
    /\ UNCHANGED <<config, msock, csock, fails, notes, raw, data>>

----------------------------------------------------------------------------
(* The program *)

Next ==
    \/ MainCallConnect
    \/ MainCallListen
    \/ Close
    \/ ReconnectNotice
    \/ AttemptNotice
    \/ CreateSocket
    \/ SetTimeout
    \/ ConnectOk
    \/ ConnectFail
    \/ ConnectedNotice
    \/ ReturnSock
    \/ FailedNotice
    \/ Sleep
    \/ RecvData
    \/ RecvError
    \/ DecodeChunk
    \/ TestData
    \/ ClosedNotice
    \/ ReceivedNotice
    \/ ErrorNotice

Spec == Init /\ [][Next]_vars

\* The interpreter always runs the next line: no step of the program is
\* put off for ever.
FairSpec == Spec /\ WF_vars(Next)

TypeOK ==
    /\ pc \in MainPcs \cup ConnectPcs \cup ReceivePcs \cup {"exit"}
    /\ msock \in 0 .. 3
    /\ csock \in 0 .. 3
    /\ fails \in 0 .. MaxFails
    /\ raw \in Chunks
    /\ Len(trace) <= Window

----------------------------------------------------------------------------
(* Properties *)

Connected == {i \in ObjIds : socks[i].st = "connected"}

\* the k-th last event is ev (k = 0 for the last one)
Ago(k, ev) == Len(trace) > k /\ trace[Len(trace) - k].ev = ev

\* C1: once the receiver loop of a connection has terminated, by whatever
\* cause, and control is past the close of line 46, that connection has been
\* closed exactly once; it stays so while the next attempts are made.
C1_ClosedOnceAfterReceiver ==
    \A i \in ObjIds :
        (socks[i].ended # "no" /\ pc # "m46") => socks[i].closes = 1

\* C2: every exit from the receive phase, error exits included, goes to the
\* sock.close() of line 46.
C2_CloseOnEveryExit ==
    [][(pc \in ReceivePcs /\ pc' \notin ReceivePcs) => pc' = "m46"]_vars

\* C3: no error terminates the process: the session loop never reaches a
\* terminal state.
C3_NeverTerminates == pc # "exit"

\* C4: at most one connection is open at any time, and a connection attempt
\* is only ever made while none is open, so that lifetimes do not overlap.
C4_AtMostOneOpen ==
    /\ Cardinality(Connected) <= 1
    /\ pc \in {"c31", "c32", "c33", "c34"} => Connected = {}

\* the second lifetime is open, the first one closed
C4_Witness ==
    /\ pc = "c36"
    /\ msock # 0
    /\ socks[msock].st = "closed"
    /\ socks[csock].st = "connected"

\* C5: connect_to_server never fails outward.  It is left only by the
\* return of line 36, with an open connection and no exception in flight;
\* a failed attempt goes to the handler, the wait and the next attempt.
C5_NeverFailsOutward ==
    [][ /\ (pc \in ConnectPcs /\ pc' \notin ConnectPcs) =>
              /\ pc = "c36"
              /\ pc' = "m45"
              /\ socks'[msock'].st = "connected"
              /\ exc' = ""
        /\ (pc = "c34" /\ exc' # "") => (pc' = "c38" /\ exc' \in ConnectErrors)
        /\ pc = "c38" => pc' = "c39"
        /\ pc = "c39" => pc' = "c31" ]_vars

\* the call has returned after as many failures as the server inflicts
C5_Witness == pc = "m45" /\ fails >= 2 /\ socks[msock].st = "connected"

\* C6 (state part): the success notice is printed at most once per call,
\* after as many failure notices as attempts have failed, it ends the
\* attempts, and the receive phase starts only after it.
C6_Notices ==
    /\ notes.ok <= 1
    /\ notes.ok = 1 => (notes.fail = fails /\ pc \notin (ConnectPcs \ {"c36"}))
    /\ pc \in ReceivePcs \cup {"m45"} =>
          (notes.ok = 1 /\ notes.fail = fails /\ socks[msock].st = "connected")

\* C6: k failed attempts followed by a success make connect_to_server
\* return an open connection, after exactly k failure notices and then one
\* success notice, and only then does the receive phase start.
C6_FailuresThenSuccess ==
    /\ []C6_Notices
    /\ (pc = "m44") ~> (pc = "m45")

\* two failed attempts, success on the third
C6_Witness ==
    /\ pc = "m45"
    /\ fails = 2
    /\ notes = [att |-> 3, fail |-> 2, ok |-> 1]
    /\ Ago(0, "connected")

\* C7: the phases are sequential.  A read is issued only on a connected,
\* never closed socket whose receiver has not ended; the close is issued
\* only on a connected socket whose receiver has ended; an attempt is made
\* only while main holds no socket or a closed one.
C7_PhasesSequential ==
    /\ pc \in {"r18", "r18d", "r19", "r20", "r22", "r24"} =>
          /\ socks[msock].st = "connected"
          /\ socks[msock].closes = 0
          /\ socks[msock].ended = "no"
    /\ pc = "m46" =>
          /\ socks[msock].st = "connected"
          /\ socks[msock].closes = 0
          /\ socks[msock].ended # "no"
    /\ pc \in ConnectPcs \ {"c35", "c36"} =>
          /\ Connected = {}
          /\ msock # 0 => (socks[msock].st = "closed" /\ socks[msock].ended # "no")

\* the attempt that follows the close of the connection before
C7_Witness ==
    /\ pc = "c34"
    /\ msock # 0
    /\ socks[msock].closes = 1
    /\ socks[csock].st = "created"

\* C8: a zero-length read ends listen_for_messages with the clean-close
\* notice and outcome, never by the error handler, and goes to the same
\* close of line 46 as an error does.
C8_ZeroReadIsCleanClose ==
    [][ /\ (pc = "r18d" /\ raw = <<>>) => (pc' = "r19" /\ data' = <<>>)
        /\ (pc = "r19" /\ raw = <<>>) => pc' = "r20"
        /\ pc = "r20" =>
              /\ raw = <<>>
              /\ pc' = "m46"
              /\ socks'[msock].ended = "clean"
              /\ trace'[Len(trace')].ev = "closed"
        /\ pc = "r24" => pc' = "m46" ]_vars

\* the very first read of a connection was the zero-length one
C8_Witness ==
    /\ pc = "m46"
    /\ socks[msock].ended = "clean"
    /\ Ago(0, "closed") /\ Ago(1, "recv") /\ Ago(2, "connected")

\* C9: a connection on which a read raised a transport error is never read
\* again: it is in the handler, about to be closed, or closed.
C9_NoReadAfterError ==
    \A i \in ObjIds :
        socks[i].err =>
            \/ i = msock /\ pc = "r24" /\ exc \in RecvErrors
            \/ i = msock /\ pc = "m46" /\ socks[i].ended = "error"
            \/ socks[i].st = "closed" /\ pc \in {"m47", "m44"} \cup ConnectPcs

\* after a read error: closed, and a fresh connect cycle under way
C9_Witness ==
    /\ pc = "c34"
    /\ msock # 0
    /\ socks[msock].err
    /\ socks[msock].st = "closed"

\* C10 as stated: every invocation of listen_for_messages terminates.
C10_AlwaysTerminates == (pc \in ReceivePcs) ~> (pc \notin ReceivePcs)

\* a read ended the loop: zero-length, or an exception
ReadEnded == pc \in {"r20", "r24"} \/ (pc \in {"r18d", "r19"} /\ raw = <<>>)

\* C10 amended: listen_for_messages ends only after a zero-length read or an
\* exception, and then it does end; a non-empty chunk that decodes is
\* printed and followed by the next read.
C10_EndsOnlyOnCloseOrError ==
    /\ [][ /\ (pc \in ReceivePcs /\ pc' \notin ReceivePcs) =>
                 \/ pc = "r20" /\ raw = <<>>
                 \/ pc = "r24"
                 \/ pc' = "exit" /\ exc' # ""
           /\ (pc = "r19" /\ raw # <<>>) => pc' = "r22"
           /\ pc = "r22" => pc' = "r18" ]_vars
    /\ ReadEnded ~> (pc \notin ReceivePcs)

\* a connection that delivered a chunk and was then closed by the server
C10_Witness ==
    /\ pc = "m46"
    /\ Ago(0, "closed") /\ Ago(1, "recv") /\ Ago(2, "received")

\* the last event
LastEvent == trace[Len(trace)]

Printed == {"attempting", "connected", "failed", "received", "closed", "error", "reconnecting"}
SocketCalls == {"socket", "settimeout", "connect", "recv", "close"}

\* in trace, an event a is followed by one of B, an event b comes after one
\* of A
FollowedBy(a, B) == \A k \in 1 .. Len(trace) - 1 : trace[k].ev = a => trace[k + 1].ev \in B
ComesAfter(b, A) == \A k \in 2 .. Len(trace) : trace[k].ev = b => trace[k - 1].ev \in A

\* C13: the client never sends: every event is a printed line, the wait, or
\* one of socket(), settimeout, connect, recv and close, and while a
\* connection is open the only calls made are recv and close.
C13_NeverSends ==
    [][ trace' # trace =>
           LET e == trace'[Len(trace')].ev
           IN  /\ e \in Printed \cup {"sleep"} \cup SocketCalls
               /\ Connected # {} => e \in Printed \cup {"recv", "close"} ]_vars

\* a connection that was read and then closed
C13_Witness ==
    /\ pc = "m47"
    /\ Ago(0, "close") /\ Ago(1, "closed") /\ Ago(2, "recv")

\* C14: the wait of 5 happens once after each failed attempt and nowhere
\* else: it comes right after the failure notice and right before the next
\* attempt notice; a success is followed by the first read, the end of a
\* session by the close, the reconnect notice and the next attempt notice.
C14_WaitOnlyAfterFailure ==
    /\ \A k \in 1 .. Len(trace) : trace[k].ev = "sleep" => trace[k].arg = <<5>>
    /\ ComesAfter("sleep", {"failed"})
    /\ FollowedBy("sleep", {"attempting"})
    /\ FollowedBy("failed", {"sleep"})
    /\ ComesAfter("failed", {"connect"})
    /\ \A k \in 1 .. Len(trace) - 1 :
          trace[k].ev = "connect" =>
             trace[k + 1].ev = (IF trace[k].err = "" THEN "connected" ELSE "failed")
    /\ FollowedBy("connected", {"recv"})
    /\ FollowedBy("closed", {"close"})
    /\ FollowedBy("error", {"close"})
    /\ FollowedBy("close", {"reconnecting"})
    /\ FollowedBy("reconnecting", {"attempting"})
    /\ Ago(0, "failed") => pc = "c39"
    /\ Ago(0, "sleep") => pc = "c31"
    /\ pc = "c39" => Ago(0, "failed")

\* a failed attempt, the wait, the next attempt
C14_Witness ==
    /\ pc = "c32"
    /\ Ago(0, "attempting") /\ Ago(1, "sleep") /\ Ago(2, "failed")

\* C15: every invocation of listen_for_messages prints one final status
\* line, after its last read: the receiver is not left with a read as the
\* last event.  The status line is followed by the close, one reconnect
\* notice and the next attempt notice.
C15_OneFinalStatus ==
    /\ Ago(0, "recv") => pc \in ReceivePcs
    /\ ComesAfter("closed", {"recv"})
    /\ ComesAfter("error", {"recv"})
    /\ FollowedBy("recv", {"received", "closed", "error"})
    /\ FollowedBy("closed", {"close"})
    /\ FollowedBy("error", {"close"})
    /\ FollowedBy("close", {"reconnecting"})
    /\ FollowedBy("reconnecting", {"attempting"})

\* C17: the timeout of line 33 is in force for every read; a read that
\* times out goes to the handler of line 23, which prints the error and
\* returns; main closes the connection and starts the next connect cycle.
C17_ReadTimeoutIsError ==
    [][ /\ pc \in ReceivePcs => socks[msock].timeout = 5
        /\ (pc = "r18" /\ exc' = "TimeoutError") =>
              /\ pc' = "r24"
              /\ socks'[msock].st = "connected"
        /\ pc = "r24" =>
              /\ trace'[Len(trace')] = Event("error", exc, <<>>)
              /\ socks'[msock].ended = "error"
              /\ pc' = "m46"
        /\ pc = "m46" => (pc' = "m47" /\ socks'[msock].st = "closed")
        /\ pc = "m47" => pc' = "m44"
        /\ pc = "m44" => pc' = "c31" ]_vars

\* a read timed out, the connection is closed, the next call of
\* connect_to_server is under way
C17_Witness ==
    /\ pc = "c31"
    /\ msock # 0
    /\ socks[msock].st = "closed"
    /\ Ago(0, "reconnecting") /\ Ago(1, "close") /\ Ago(2, "error") /\ Ago(3, "recv")
    /\ trace[Len(trace) - 3].err = "TimeoutError"

\* C18: the socket of a failed attempt has been closed by the time the next
\* attempt is announced and its socket created.
C18_FailedSocketClosed ==
    (pc \in {"c31", "c32"} /\ csock # 0) => socks[csock].st = "closed"

\* C19: only a zero-length read ends the receiver as a clean close.  A
\* chunk that is not empty but strips to nothing is printed as a message
\* with empty text, and the next read follows.
C19_BlankChunkIsMessage ==
    [][ /\ pc = "r20" => (raw = <<>> /\ data = <<>>)
        /\ (pc = "r19" /\ data # <<>> /\ Strip(data) = <<>>) => pc' = "r22"
        /\ (pc = "r22" /\ Strip(data) = <<>>) =>
              /\ trace'[Len(trace')] = Event("received", "", <<>>)
              /\ pc' = "r18"
              /\ socks' = socks ]_vars

\* a chunk of one newline was printed as an empty message
C19_Witness ==
    /\ pc = "r18"
    /\ raw = <<10>>
    /\ LastEvent = Event("received", "", <<>>)
    /\ socks[msock].ended = "no"

\* C16: every attempt has one attempt notice before it and one outcome
\* notice after it.  The attempt notices of a call number its failure and
\* success notices, plus one while an attempt is under way; in trace an
\* attempt notice is followed by the socket, the timeout, the connect and
\* then the notice of that connect's outcome.
C16_NoticePerAttempt ==
    /\ notes.att = notes.fail + notes.ok
                      + (IF pc \in {"c32", "c33", "c34", "c35", "c38"} THEN 1 ELSE 0)
    /\ FollowedBy("attempting", {"socket"})
    /\ FollowedBy("socket", {"settimeout"})
    /\ FollowedBy("settimeout", {"connect"})
    /\ \A k \in 1 .. Len(trace) - 1 :
          trace[k].ev = "connect" =>
             trace[k + 1] = (IF trace[k].err = "" THEN Event("connected", "", <<>>)
                             ELSE Event("failed", trace[k].err, <<>>))
    /\ ComesAfter("socket", {"attempting"})
    /\ ComesAfter("connect", {"settimeout"})
    /\ ComesAfter("connected", {"connect"})
    /\ ComesAfter("failed", {"connect"})

\* the second attempt of a call is under way
C16_Witness ==
    /\ pc = "c34"
    /\ notes = [att |-> 2, fail |-> 1, ok |-> 0]
    /\ Ago(0, "settimeout") /\ Ago(1, "socket") /\ Ago(2, "attempting")

\* C12: the two configuration values are those of startup for ever, and
\* every socket connect was called on, in any attempt of any cycle, was
\* given that one address: localhost and 8080 where the variables are unset.
C12_SameTarget ==
    LET host == IF environ.SERVER_HOST = <<>> THEN "localhost" ELSE "surge.example"
        port == IF environ.SERVER_PORT = <<>> THEN 8080 ELSE 9000
    IN  /\ SERVER_HOST = host
        /\ SERVER_PORT = port
        /\ \A i \in ObjIds :
              socks[i].peer # NoPeer => socks[i].peer = [host |-> host, port |-> port]
        /\ \A i \in ObjIds :
              (socks[i].st \in {"connected", "closed"} \/ (i = csock /\ pc = "c38")) =>
                 socks[i].peer # NoPeer

\* with nothing set: the connection of the cycle before and a retry of this
\* one, both to localhost:8080
C12_Witness ==
    /\ environ = [SERVER_HOST |-> <<>>, SERVER_PORT |-> <<>>]
    /\ pc = "c38"
    /\ fails = 2
    /\ msock # 0
    /\ socks[msock].peer = [host |-> "localhost", port |-> 8080]
    /\ socks[csock].peer = [host |-> "localhost", port |-> 8080]

====
